---- MODULE Spec2Model ----
(***************************************************************************)
(* A model of src/ImaGene.py: the ImaGene collection (a batch of genomic   *)
(* images) and the operations that transform it in place.                  *)
(*                                                                         *)
(* A matrix is a sequence of rows, a row a sequence of cells.  Cells are   *)
(* the two intensity levels 0 and 255 while the collection is the list of  *)
(* uint8 arrays that read_simulations builds; convert() turns the list     *)
(* into one float array whose cells are 0 and 1.  Indices are 1-based.     *)
(* Site positions are modelled by the column number the site had when the  *)
(* sample was parsed; a metadata record by the value of its field          *)
(* parameter_name.                                                         *)
(***************************************************************************)
EXTENDS Integers, Sequences, FiniteSets, TLC

\* data, positions, description, targets, classes, dimensions: the fields of
\*     an ImaGene object (dimensions is the pair of arrays __init__ makes)
\* dtype: what self.data is, the "list" of matrices or one "ndarray"
\* classified: history, set_classes has been called on the object
\* op, ret: the last call, and what it returned ("0", "1") or raised
VARIABLES data, positions, description, targets, classes, dimensions,
          dtype, classified, op, ret

vars == <<data, positions, description, targets, classes, dimensions,
          dtype, classified, op, ret>>

(* ------------------------------ bounds -------------------------------- *)

\* number of samples (runs) of a parsed collection
MaxSamples == 2
\* nr_samples of ImaFile: the rows (haplotypes) of every parsed matrix
NrRows == 2
\* most segregating sites (columns) of a parsed matrix, and of a resize
MaxCols == 2
\* largest raw value of the metadata field parameter_name
MaxTarget == 2
\* largest nr_classes passed to set_classes
MaxNrClasses == 3
\* haplotypes of a run in the specification that resizes
ResizeRows == 1
\* most haplotypes, and most sites, of a run in the specification that sorts
MaxSortDim == 3
\* most cells of a matrix in the specification that sorts
MaxCells == 6
\* most files of a simulations folder
MaxFiles == 2
\* most characters of the haplotype lines of a run in a file that is read
MaxRunCells == 3

(* ------------------------- sequences and sums -------------------------- *)

Range(s) == {s[k] : k \in 1..Len(s)}

RECURSIVE SumSeq(_)
SumSeq(s) == IF Len(s) = 0 THEN 0 ELSE Head(s) + SumSeq(Tail(s))

MinOf(S) == CHOOSE x \in S : \A y \in S : x <= y
MaxOf(S) == CHOOSE x \in S : \A y \in S : x >= y

Abs(x) == IF x < 0 THEN -x ELSE x

\* the elements of a set of integers in ascending order
SortedSeq(S) ==
    CHOOSE s \in [1..Cardinality(S) -> S] :
        \A a, b \in 1..Cardinality(S) : a < b => s[a] < s[b]

\* all permutations of 1..n, as sequences
Perms(n) == {p \in [1..n -> 1..n] : \A a, b \in 1..n : a # b => p[a] # p[b]}

Reverse(s) == [k \in 1..Len(s) |-> s[Len(s) + 1 - k]]

\* s[index]: the elements of s at the places index names, in that order
Take(s, index) == [k \in 1..Len(index) |-> s[index[k]]]

\* the sequences d with d[i] in choices[i] for every i
Product(choices) ==
    {d \in [1..Len(choices) -> UNION Range(choices)] :
        \A i \in 1..Len(choices) : d[i] \in choices[i]}

(* ------------------------------ matrices ------------------------------- *)

NRows(m) == Len(m)
NCols(m) == IF Len(m) = 0 THEN 0 ELSE Len(m[1])
Shape(m) == <<NRows(m), NCols(m)>>

Column(m, k) == [r \in 1..NRows(m) |-> m[r][k]]

\* m[:, idx]: the columns idx names, in that order
SelectCols(m, idx) == [r \in 1..NRows(m) |-> Take(m[r], idx)]

\* the two-level matrices of r rows and c columns
Images(r, c) == [1..r -> [1..c -> {0, 255}]]

\* np.mean(m[:, k] / 255.) compared with the fraction num/den, exactly
MeanAtLeast(m, k, num, den) == SumSeq(Column(m, k)) * den >= num * 255 * NRows(m)
MeanAbove(m, k, num, den) == SumSeq(Column(m, k)) * den > num * 255 * NRows(m)

(* ------------------------- construction (Init) ------------------------- *)

\* np.unique of a sequence of integers: its distinct values, ascending
Unique(s) == SortedSeq(Range(s))

\* ImaGene.__init__ on what read_simulations collected: mats the matrices,
\* vals the value of description[i][parameter_name] of each run
Construct(mats, vals) ==
    /\ data = mats
    /\ positions = [i \in 1..Len(mats) |-> [k \in 1..NCols(mats[i]) |-> k]]
    /\ description = vals
    /\ targets = vals
    /\ classes = Unique(vals)
    /\ dimensions = << [i \in 1..Len(mats) |-> NRows(mats[i])],
                       [i \in 1..Len(mats) |-> NCols(mats[i])] >>
    /\ dtype = "list"
    /\ classified = FALSE
    /\ op = <<"read_simulations">>
    /\ ret = "0"

(* ------------------------------ majorminor ----------------------------- *)

\* lines 290-291 on one matrix: the columns whose mean exceeds 0.5 inverted
Polarise(m) ==
    [r \in 1..NRows(m) |->
        [k \in 1..NCols(m) |->
            IF MeanAbove(m, k, 1, 2) THEN 255 - m[r][k] ELSE m[r][k]]]

\* the loop of majorminor: n iterations, each one on self.data[0]
RECURSIVE MajorMinorLoop(_, _)
MajorMinorLoop(d, n) ==
    IF n = 0 THEN d
    ELSE MajorMinorLoop([d EXCEPT ![1] = Polarise(d[1])], n - 1)

majorminor ==
    /\ data' = MajorMinorLoop(data, Len(data))
    /\ op' = <<"majorminor">>
    /\ ret' = "0"
    /\ UNCHANGED <<positions, description, targets, classes, dimensions,
                   dtype, classified>>

(* ------------------------------ filter_freq ---------------------------- *)

\* np.where(np.mean(m/255., axis=0) >= num/den)[0]
KeptColumns(m, num, den) ==
    SortedSeq({k \in 1..NCols(m) : MeanAtLeast(m, k, num, den)})

\* the assignment self.data[i] = self.data[i][:,idx,:]: a list takes the new
\* array; a row of an ndarray takes it only if it broadcasts to the row's
\* shape (as many columns, or a single column repeated), else ValueError
AssignColumns(m, idx, ty) ==
    IF ty = "list" \/ Len(idx) = NCols(m) THEN SelectCols(m, idx)
    ELSE [r \in 1..NRows(m) |-> [k \in 1..NCols(m) |-> m[r][idx[1]]]]

AssignRaises(m, idx, ty) ==
    ty = "ndarray" /\ Len(idx) # NCols(m) /\ Len(idx) # 1

\* the loop of filter_freq from sample i on; st holds data, positions,
\* the column counts of dimensions and the outcome
RECURSIVE FilterLoop(_, _, _, _, _)
FilterLoop(st, i, num, den, ty) ==
    IF i > Len(st.data) THEN st
    ELSE LET m == st.data[i]
             idx == KeptColumns(m, num, den)
             pos == st.positions[i]
         IN IF \E k \in Range(idx) : k > Len(pos)
            THEN [st EXCEPT !.ret = "IndexError"]
            ELSE IF AssignRaises(m, idx, ty)
            THEN [st EXCEPT !.positions[i] = Take(pos, idx),
                            !.ret = "ValueError"]
            ELSE FilterLoop(
                   [st EXCEPT !.positions[i] = Take(pos, idx),
                              !.data[i] = AssignColumns(m, idx, ty),
                              !.cols[i] = NCols(AssignColumns(m, idx, ty))],
                   i + 1, num, den, ty)

filter_freq(minimal_maf) ==
    LET st == FilterLoop([data |-> data, positions |-> positions,
                          cols |-> dimensions[2], ret |-> "0"],
                         1, minimal_maf[1], minimal_maf[2], dtype)
    IN /\ data' = st.data
       /\ positions' = st.positions
       /\ dimensions' = <<dimensions[1], st.cols>>
       /\ op' = <<"filter_freq">>
       /\ ret' = st.ret
       /\ UNCHANGED <<description, targets, classes, dtype, classified>>

(* -------------------------------- resize ------------------------------- *)

\* the target shape: the caller's dimensions, or the truncated mean, the
\* min or the max of the recorded dimensions (lines 324-330)
ResizeTarget(dims, option) ==
    IF option = "mean"
    THEN << SumSeq(dimensions[1]) \div Len(dimensions[1]),
            SumSeq(dimensions[2]) \div Len(dimensions[2]) >>
    ELSE IF option = "min"
    THEN << MinOf(Range(dimensions[1])), MinOf(Range(dimensions[2])) >>
    ELSE IF option = "max"
    THEN << MaxOf(Range(dimensions[1])), MaxOf(Range(dimensions[2])) >>
    ELSE dims

\* the default of the parameter dimensions
Default == <<128, 128>>

\* self.dimensions[0][i], self.dimensions[1][i] = shape, for i in 1..n
SetDimensions(dm, n, shape) ==
    << [i \in 1..Len(dm[1]) |-> IF i <= n THEN shape[i][1] ELSE dm[1][i]],
       [i \in 1..Len(dm[2]) |-> IF i <= n THEN shape[i][2] ELSE dm[2][i]] >>

\* resize with set_to_boundaries=True.  skimage.transform.resize is not code
\* of this repository: what it returns is any image of the target shape,
\* pushed to the two levels by line 340.  Called on images that have at
\* least one column, for a target of at least one row and one column.  A
\* row of an ndarray cannot take an array of another shape (line 333).
resize(dims, option) ==
    LET t == ResizeTarget(dims, option) IN
    /\ t[1] >= 1 /\ t[2] >= 1
    /\ \A i \in 1..Len(data) : NCols(data[i]) >= 1
    /\ op' = <<"resize">>
    /\ IF dtype = "ndarray" /\ \E i \in 1..Len(data) : Shape(data[i]) # t
       THEN /\ ret' = "ValueError"
            /\ UNCHANGED <<data, dimensions>>
       ELSE /\ data' \in [1..Len(data) -> Images(t[1], t[2])]
            /\ dimensions' = SetDimensions(dimensions, Len(data),
                                           [i \in 1..Len(data) |-> t])
            /\ ret' = "0"
    /\ UNCHANGED <<positions, description, targets, classes, dtype, classified>>

(* --------------------------------- sort -------------------------------- *)

Orderings == {"rows_freq", "cols_freq", "rows_dist", "cols_dist"}

Transpose(m) == [k \in 1..NCols(m) |-> Column(m, k)]

\* a sorts before b in the lexicographic order np.unique sorts rows by
LexLess(a, b) ==
    \E k \in 1..Len(a) : a[k] < b[k] /\ \A j \in 1..(k - 1) : a[j] = b[j]

\* uniques and counts of np.unique(m, return_counts=True, axis=0)
UniqueRows(m) ==
    CHOOSE u \in [1..Cardinality(Range(m)) -> Range(m)] :
        \A a, b \in 1..Cardinality(Range(m)) : a < b => LexLess(u[a], u[b])

Counts(m, u) ==
    [j \in 1..Len(u) |-> Cardinality({r \in 1..NRows(m) : m[r] = u[j]})]

\* keys.argsort(): the default sort is not stable, equal keys come in any
\* order
Argsorts(keys) ==
    {p \in Perms(Len(keys)) :
        \A a, b \in 1..Len(keys) : a < b => keys[p[a]] <= keys[p[b]]}

\* a fill loop that writes each unique row once
FillOnce(u, counts, order) == [k \in 1..Len(order) |-> u[order[k]]]

\* the fill loops: counts[j] copies of uniques[j], for j in order
RECURSIVE Fill(_, _, _)
Fill(u, counts, order) ==
    IF Len(order) = 0 THEN << >>
    ELSE [z \in 1..counts[Head(order)] |-> u[Head(order)]]
         \o Fill(u, counts, Tail(order))

\* np.mean(np.abs(uniques - top), axis=1), times the row length
Distances(u, top) ==
    [j \in 1..Len(u) |-> SumSeq([k \in 1..Len(top) |-> Abs(u[j][k] - top[k])])]

\* the groups taken in the order of counts.argsort(), not reversed
RowsFreqAscending(m) ==
    LET u == UniqueRows(m)
        counts == Counts(m, u)
    IN {Fill(u, counts, p) : p \in Argsorts(counts)}

\* what lines 355-360 can leave in a matrix
RowsFreq(m) ==
    LET u == UniqueRows(m)
        counts == Counts(m, u)
    IN {Fill(u, counts, Reverse(p)) : p \in Argsorts(counts)}

\* what lines 371-381 can leave in a matrix
RowsDist(m) ==
    LET u == UniqueRows(m)
        counts == Counts(m, u)
    IN UNION {{Fill(u, counts, q) : q \in Argsorts(Distances(u, u[Reverse(p)[1]]))}
                 : p \in Argsorts(counts)}

\* the outcomes of one iteration of the loop of sort on matrix m
SortOutcomes(m, ordering) ==
    IF ordering = "rows_freq" THEN RowsFreq(m)
    ELSE IF ordering = "rows_dist" THEN RowsDist(m)
    ELSE IF NCols(m) = 0 THEN {m}
    ELSE IF ordering = "cols_freq" THEN {Transpose(x) : x \in RowsFreq(Transpose(m))}
    ELSE {Transpose(x) : x \in RowsDist(Transpose(m))}

\* counts.argsort()[::-1][0] on a matrix that has no column: IndexError
SortRaises(m, ordering) == ordering = "cols_dist" /\ NCols(m) = 0

\* the first sample the loop of sort raises at, Len(d) + 1 if none
FirstRaise(d, ordering) ==
    MinOf({i \in 1..Len(d) : SortRaises(d[i], ordering)} \cup {Len(d) + 1})

sort(ordering) ==
    /\ op' = <<"sort", ordering>>
    /\ IF ordering \notin Orderings
       THEN /\ ret' = "1"
            /\ UNCHANGED data
       ELSE /\ data' \in Product([i \in 1..Len(data) |->
                          IF i < FirstRaise(data, ordering)
                          THEN SortOutcomes(data[i], ordering)
                          ELSE {data[i]}])
            /\ ret' = IF FirstRaise(data, ordering) <= Len(data)
                      THEN "IndexError" ELSE "0"
    /\ UNCHANGED <<positions, description, targets, classes, dimensions,
                   dtype, classified>>

(* -------------------------------- convert ------------------------------ *)

Cells(d) == UNION {UNION {Range(d[i][r]) : r \in 1..NRows(d[i])} : i \in 1..Len(d)}

\* a check of the row counts alone
SameRowCount(dm) == Cardinality(Range(dm[1])) = 1

\* line 406: one row count and one column count in the recorded dimensions
SameShape(dm) == Cardinality(Range(dm[1])) * Cardinality(Range(dm[2])) = 1

\* x / 255. on the two levels
Div255(x) == x \div 255
Flip(x) == 1 - x

\* lines 418-421: the whole array divided by 255 if its maximum exceeds 1
Rescaled(d) ==
    IF MaxOf(Cells(d)) > 1
    THEN [i \in 1..Len(d) |->
            [r \in 1..NRows(d[i]) |-> [k \in 1..NCols(d[i]) |-> Div255(d[i][r][k])]]]
    ELSE d

\* lines 432-436: every sample flipped if flip is set
Flipped(d, flip) ==
    IF flip
    THEN [i \in 1..Len(d) |->
            [r \in 1..NRows(d[i]) |-> [k \in 1..NCols(d[i]) |-> Flip(d[i][r][k])]]]
    ELSE d

\* convert with normalise=False
convert(flip) ==
    /\ op' = <<"convert">>
    /\ IF dtype = "list" /\ ~SameShape(dimensions)
       THEN /\ ret' = "1"
            /\ UNCHANGED <<data, dtype>>
       ELSE /\ dtype' = "ndarray"
            /\ IF Cells(data) = {}
               THEN \* self.data.max() of an array without cells
                    /\ ret' = "ValueError"
                    /\ UNCHANGED data
               ELSE /\ data' = Flipped(Rescaled(data), flip)
                    /\ ret' = "0"
    /\ UNCHANGED <<positions, description, targets, classes, dimensions,
                   classified>>

(* ------------------------- set_classes, set_targets -------------------- *)

\* np.asarray(np.linspace(lo, hi, n), dtype='int32') for 0 <= lo <= hi:
\* n evenly spaced points, the last one hi, each truncated to an integer
Linspace(lo, hi, n) ==
    [k \in 1..n |->
        IF n = 1 THEN lo
        ELSE IF k = n THEN hi
        ELSE lo + ((k - 1) * (hi - lo)) \div (n - 1)]

set_classes(cls, nr_classes) ==
    LET raw == [i \in 1..Len(data) |-> description[i]] IN
    /\ classes' = IF nr_classes > 0
                  THEN Linspace(MinOf(Range(raw)), MaxOf(Range(raw)), nr_classes)
                  ELSE IF Len(cls) > 0 THEN cls
                  ELSE Unique(raw)
    /\ classified' = TRUE
    /\ op' = <<"set_classes">>
    /\ ret' = "0"
    /\ UNCHANGED <<data, positions, description, targets, dimensions, dtype>>

\* self.classes[np.argsort(np.abs(raw - self.classes))[0]]
Nearest(raw, cl) ==
    {cl[p[1]] : p \in Argsorts([j \in 1..Len(cl) |-> Abs(raw - cl[j])])}

set_targets ==
    /\ targets' \in Product([i \in 1..Len(data) |-> Nearest(description[i], classes)])
    /\ op' = <<"set_targets">>
    /\ ret' = "0"
    /\ UNCHANGED <<data, positions, description, classes, dimensions, dtype,
                   classified>>

(* --------------------------------- subset ------------------------------ *)

\* lines 481-483: the shapes of the new data written over the first
\* entries of the dimension record, which keeps its length
SubsetDimensions(dm, d) ==
    SetDimensions(dm, IF Len(d) < Len(dm[1]) THEN Len(d) ELSE Len(dm[1]),
                  [i \in 1..Len(d) |-> Shape(d[i])])

\* index is an integer array.  self.targets[index] is taken first; a list
\* cannot be indexed by an array, so on a collection that convert has not
\* turned into an ndarray line 478 raises TypeError
subset(index) ==
    /\ op' = <<"subset">>
    /\ IF \E k \in 1..Len(index) : index[k] > Len(targets)
       THEN /\ ret' = "IndexError"
            /\ UNCHANGED <<targets, data, positions, description, dimensions>>
       ELSE /\ targets' = Take(targets, index)
            /\ IF dtype = "list"
               THEN /\ ret' = "TypeError"
                    /\ UNCHANGED <<data, positions, description, dimensions>>
               ELSE /\ data' = Take(data, index)
                    /\ positions' = Take(positions, index)
                    /\ description' = Take(description, index)
                    /\ dimensions' = SubsetDimensions(dimensions, Take(data, index))
                    /\ ret' = IF Len(index) > Len(dimensions[1])
                              THEN "IndexError" ELSE "0"
    /\ UNCHANGED <<classes, dtype, classified>>

(* ---------------------------- read_simulations ------------------------- *)

\* A file is the sequence of its lines (f.read().decode('utf8').split('\n')),
\* a line the sequence of its pieces: the characters of a separator or of a
\* haplotype line, the fields of a header, segsites or positions line.  The
\* empty line is << >>.

\* the numerals of the files, and int() or float() of one of them
Numeral(n) == <<"0", "1", "2", "3", "4", "5", "6", "7", "8", "9">>[n + 1]
Number(s) == CHOOSE n \in 0..9 : Numeral(n) = s

\* the line '//'
Separator == <<"/", "/">>

\* the lines of a run of an msms file: the separator, the number of
\* segregating sites, their positions between the word 'positions:' and the
\* empty piece the trailing blank leaves, one line per haplotype, an empty
\* line.  hap holds the haplotype lines, each of as many characters as the
\* run has sites; the position of a site is its column number.
RunLines(hap) ==
    << Separator,
       <<"segsites: ", Numeral(NCols(hap))>>,
       <<"positions:">> \o [k \in 1..NCols(hap) |-> Numeral(k)] \o <<"">> >>
        \o hap \o << << >> >>

RECURSIVE RunsLines(_)
RunsLines(haps) ==
    IF Len(haps) = 0 THEN << >>
    ELSE RunLines(Head(haps)) \o RunsLines(Tail(haps))

\* a file: the command line, whose switch parameter_name has the value v, an
\* empty line, and the runs
FileLines(v, haps) == << <<"-SAa ", Numeral(v)>>, << >> >> \o RunsLines(haps)

\* extract_description(full_name, first_line)[parameter_name]
extract_description(first_line) == Number(first_line[2])

\* [i for i, e in enumerate(file_content) if e == '//']
Starts(file_content) ==
    SortedSeq({i \in 1..Len(file_content) : file_content[i] = Separator})

\* starts[:max_nrepl]; max_nrepl is << >> for None, <<n>> for the number n
FirstStarts(starts, max_nrepl) ==
    IF max_nrepl = << >> \/ max_nrepl[1] >= Len(starts) THEN starts
    ELSE SubSeq(starts, 1, max_nrepl[1])

\* a haplotype line read as it is
Verbatim(element) == element

\* line 215: every character that is not '0' becomes '1'
NotZeroToOne(element) == IF element # "0" THEN "1" ELSE element

\* line 217: '1' becomes '255'
OneTo255(element) == IF element = "1" THEN "255" ELSE element

\* the cast of a piece to uint8 when the row is assigned (line 218)
Uint8(element) == IF element = "255" THEN 255 ELSE Number(element)

\* lines 210-218: the haplotype lines after the positions line, each one
\* assigned to a row of nr_columns cells
Haplotypes(file_content, pointer, nr_samples, nr_columns) ==
    [j \in 1..nr_samples |->
        [k \in 1..nr_columns |->
            Uint8(OneTo255(NotZeroToOne(file_content[pointer + 2 + j][k])))]]

\* pos.pop(), pos.pop(0), np.asarray(pos, dtype='float32')
Pos(line) == [k \in 1..(Len(line) - 2) |-> Number(line[k + 1])]

\* lines 197-220 for the run whose separator is line pointer
ReadRun(file_content, pointer, nr_samples) ==
    [description |-> extract_description(file_content[1]),
     positions |-> Pos(file_content[pointer + 2]),
     data |-> Haplotypes(file_content, pointer, nr_samples,
                         Number(file_content[pointer + 1][2]))]

\* lines 183-222 for one file: its runs, in the order of their separators
ReadFile(file_content, nr_samples, max_nrepl) ==
    LET starts == FirstStarts(Starts(file_content), max_nrepl)
    IN [idx \in 1..Len(starts) |-> ReadRun(file_content, starts[idx], nr_samples)]

\* the loop over os.listdir: folder holds the files in the order listed
RECURSIVE ReadFolder(_, _, _)
ReadFolder(folder, nr_samples, max_nrepl) ==
    IF Len(folder) = 0 THEN << >>
    ELSE ReadFile(Head(folder), nr_samples, max_nrepl)
         \o ReadFolder(Tail(folder), nr_samples, max_nrepl)

\* ImaFile(folder, nr_samples).read_simulations(max_nrepl=max_nrepl) on a
\* folder of well-formed files, and the ImaGene it returns (lines 224-247)
read_simulations(folder, nr_samples, max_nrepl) ==
    LET runs == ReadFolder(folder, nr_samples, max_nrepl)
        n == Len(runs)
    IN /\ data' = [i \in 1..n |-> runs[i].data]
       /\ positions' = [i \in 1..n |-> runs[i].positions]
       /\ description' = [i \in 1..n |-> runs[i].description]
       /\ targets' = [i \in 1..n |-> runs[i].description]
       /\ classes' = Unique([i \in 1..n |-> runs[i].description])
       /\ dimensions' = << [i \in 1..n |-> NRows(runs[i].data)],
                           [i \in 1..n |-> NCols(runs[i].data)] >>
       /\ dtype' = "list"
       /\ classified' = FALSE
       /\ op' = <<"read_simulations", folder, nr_samples, max_nrepl>>
       /\ ret' = "0"

(* ----------------------------- specifications -------------------------- *)

\* thresholds of filter_freq, as <<numerator, denominator>>
Thresholds == {<<0, 1>>, <<1, 2>>, <<1, 1>>}

\* the calls of resize: a shape, or one of the three options
ResizeCalls ==
    {<<d, "none">> : d \in (1..ResizeRows) \X (1..MaxCols)}
        \cup {<<Default, o>> : o \in {"mean", "min", "max"}}

\* index arrays over a collection of n samples: permutations, selections and
\* repetitions, no longer than the collection
Indexes(n) == UNION {[1..l -> 1..n] : l \in 1..n}

\* classes a caller passes to set_classes ([] is the default)
ClassLists == {<< >>} \cup UNION {[1..l -> 0..MaxTarget] : l \in 1..2}

\* the collections read_simulations builds from runs of r haplotypes whose
\* matrices are in imgs and whose metadata values are in vals
Parsed(imgs, vals) ==
    \E n \in 1..MaxSamples :
        \E mats \in [1..n -> imgs], v \in [1..n -> vals] : Construct(mats, v)

\* the transforms that keep the shape or drop columns, on runs of NrRows
\* haplotypes
InitImages == Parsed(UNION {Images(NrRows, c) : c \in 1..MaxCols}, {0})

NextImages ==
    \/ majorminor
    \/ \E t \in Thresholds : filter_freq(t)
    \/ \E ordering \in Orderings \cup {"rows"} : sort(ordering)
    \/ \E flip \in BOOLEAN : convert(flip)
    \/ \E index \in Indexes(Len(data)) : subset(index)

SpecImages == InitImages /\ [][NextImages]_vars

\* the transforms of a parsed collection, resize among them, on runs of
\* ResizeRows haplotypes
InitPipeline == Parsed(UNION {Images(ResizeRows, c) : c \in 1..MaxCols}, {0})

NextPipeline ==
    \/ majorminor
    \/ \E t \in Thresholds : filter_freq(t)
    \/ \E c \in ResizeCalls : resize(c[1], c[2])
    \/ \E ordering \in Orderings : sort(ordering)
    \/ \E index \in Indexes(Len(data)) : subset(index)

SpecPipeline == InitPipeline /\ [][NextPipeline]_vars

\* sort, on runs of up to MaxSortDim haplotypes and sites, MaxCells cells
SortImages(r) ==
    UNION {Images(r, c) : c \in {x \in 1..MaxSortDim : r * x <= MaxCells}}

InitSort == \E r \in 1..MaxSortDim : Parsed(SortImages(r), {0})

NextSort == \E ordering \in Orderings \cup {"rows"} : sort(ordering)

SpecSort == InitSort /\ [][NextSort]_vars

\* the labels; every run is one image of one site
InitLabels == Parsed({[r \in 1..NrRows |-> <<0>>]}, 0..MaxTarget)

NextLabels ==
    \/ \E cls \in ClassLists, nr \in 0..MaxNrClasses : set_classes(cls, nr)
    \/ set_targets
    \/ \E flip \in BOOLEAN : convert(flip)
    \/ \E index \in Indexes(Len(data)) : subset(index)

SpecLabels == InitLabels /\ [][NextLabels]_vars

\* the haplotype lines of a run of r haplotypes: '0', '1' and another
\* character
Characters == {"0", "1", "2"}

HaplotypeLines(r) ==
    UNION {[1..r -> [1..c -> Characters]] :
              c \in {x \in 1..MaxCols : r * x <= MaxRunCells}}

\* how many runs each of nf files has, MaxSamples runs at most in the folder
RunCounts(nf) == {rc \in [1..nf -> 0..MaxSamples] : SumSeq(rc) <= MaxSamples}

\* the folder whose file f has the header value v[f] and the next rc[f] of
\* the runs haps
Folder(rc, v, haps) ==
    [f \in 1..Len(rc) |->
        FileLines(v[f], SubSeq(haps, SumSeq(SubSeq(rc, 1, f - 1)) + 1,
                                     SumSeq(SubSeq(rc, 1, f))))]

\* the values of max_nrepl: None, or a number of runs
Limits == {<< >>} \cup {<<n>> : n \in 0..MaxSamples}

\* before read_simulations: an ImaFile, and no collection yet
InitRead ==
    /\ data = << >> /\ positions = << >> /\ description = << >>
    /\ targets = << >> /\ classes = << >>
    /\ dimensions = << << >>, << >> >>
    /\ dtype = "list"
    /\ classified = FALSE
    /\ op = <<"ImaFile">>
    /\ ret = "0"

\* the ImaFile reads its folder once
NextRead ==
    /\ op = <<"ImaFile">>
    /\ \E nf \in 1..MaxFiles, nr_samples \in 1..NrRows :
         \E rc \in RunCounts(nf), v \in [1..nf -> {0, MaxTarget}] :
             \E haps \in [1..SumSeq(rc) -> HaplotypeLines(nr_samples)],
                max_nrepl \in Limits :
                 read_simulations(Folder(rc, v, haps), nr_samples, max_nrepl)

SpecRead == InitRead /\ [][NextRead]_vars

(* -------------------------------- claims ------------------------------- *)

Count255(m, k) == Cardinality({r \in 1..NRows(m) : m[r][k] = 255})

\* C1: majorminor inverts, in every sample of the collection, each column
\* whose fraction of 255-valued cells is above 0.5 and leaves every other
\* column (a fraction of exactly 0.5 included) as it is, so that afterwards
\* no column of any sample has a fraction above 0.5.
C1_MajorMinorEverySample ==
    [][op' = <<"majorminor">> =>
        \A i \in 1..Len(data) :
            /\ Shape(data'[i]) = Shape(data[i])
            /\ \A r \in 1..NRows(data[i]), k \in 1..NCols(data[i]) :
                 /\ data'[i][r][k] = IF 2 * Count255(data[i], k) > NRows(data[i])
                                     THEN 255 - data[i][r][k]
                                     ELSE data[i][r][k]
                 /\ 2 * Count255(data'[i], k) <= NRows(data'[i])]_vars

\* C2: in every state a parsed collection reaches by majorminor, filter_freq,
\* resize, sort and subset, each sample has as many positions as its matrix
\* has columns.
C2_PositionsMatchColumns ==
    /\ Len(positions) = Len(data)
    /\ \A i \in 1..Len(data) : Len(positions[i]) = NCols(data[i])

\* C3: subset(index) leaves element k of matrices, positions, metadata and
\* targets equal to the element index[k] each of them had before the call.
C3_SubsetReindexesAll ==
    [][\A index \in Indexes(Len(data)) :
          subset(index) =>
              /\ data' = Take(data, index)
              /\ positions' = Take(positions, index)
              /\ description' = Take(description, index)
              /\ targets' = Take(targets, index)]_vars

\* C4: set_targets on a collection on which set_classes was never called is
\* reported as an error.
C4_TargetsNeedClasses ==
    (op = <<"set_targets">> /\ ~classified) => ret # "0"

\* C5: the class set that set_classes installs is strictly increasing.
C5_ClassesStrictlyIncreasing ==
    classified =>
        \A a, b \in 1..Len(classes) : a < b => classes[a] < classes[b]

\* the smallest of the classes nearest to raw
SmallestNearest(raw, cl) ==
    MinOf({c \in Range(cl) : \A x \in Range(cl) : Abs(raw - c) <= Abs(raw - x)})

\* C6: after set_targets every target is the class nearest to the sample's
\* metadata value, the smaller one when two classes are equally near.
C6_TargetIsSmallestNearest ==
    op = <<"set_targets">> =>
        /\ Len(targets) = Len(data)
        /\ \A i \in 1..Len(data) :
               targets[i] = SmallestNearest(description[i], classes)

\* how often row x occurs in m
Occurrences(m, x) == Cardinality({r \in 1..NRows(m) : m[r] = x})

SameRowBag(m, w) ==
    \A x \in Range(m) \cup Range(w) : Occurrences(m, x) = Occurrences(w, x)

\* C7: sort under each of the four orderings keeps the shape of every
\* matrix and permutes its rows (row orderings) or its columns (column
\* orderings): the multiset of rows, or of columns, is the one before.
C7_SortIsPermutation ==
    [][(op'[1] = "sort" /\ op'[2] \in Orderings) =>
        \A i \in 1..Len(data) :
            /\ Shape(data'[i]) = Shape(data[i])
            /\ IF op'[2] \in {"rows_freq", "rows_dist"}
               THEN SameRowBag(data[i], data'[i])
               ELSE SameRowBag(Transpose(data[i]), Transpose(data'[i]))]_vars

\* C7 happens: a distance ordering has sorted a second sample of three rows,
\* two of them equal
C7_Witness ==
    /\ op = <<"sort", "rows_dist">> /\ ret = "0"
    /\ Len(data) = 2
    /\ NRows(data[2]) = 3 /\ Cardinality(Range(data[2])) = 2

\* equal rows are next to each other, and a row's group is never larger
\* than the group of a row before it
FreqOrdered(m) ==
    /\ \A a, b, c \in 1..NRows(m) : (a < b /\ b < c /\ m[a] = m[c]) => m[b] = m[a]
    /\ \A a, b \in 1..NRows(m) :
           a < b => Occurrences(m, m[a]) >= Occurrences(m, m[b])

\* C8: after sort('rows_freq') the equal rows of every sample are contiguous
\* and the sizes of the groups never increase along the rows; after
\* sort('cols_freq') the same holds of the columns.
C8_FreqGroupsDescending ==
    /\ op = <<"sort", "rows_freq">> => \A i \in 1..Len(data) : FreqOrdered(data[i])
    /\ op = <<"sort", "cols_freq">> =>
           \A i \in 1..Len(data) : FreqOrdered(Transpose(data[i]))

\* C8 happens: sort('cols_freq') has acted on a second sample of three
\* columns in a group of two and a group of one
C8_Witness ==
    /\ op = <<"sort", "cols_freq">> /\ ret = "0"
    /\ Len(data) = 2
    /\ NCols(data[2]) = 3 /\ Cardinality(Range(Transpose(data[2]))) = 2

\* C9: filter_freq(t) keeps exactly the columns whose fraction of 255-valued
\* cells is at least t, in their order, with their positions and the column
\* count, and calling it again with the same t changes nothing.
C9_FilterFreqKeepsAndIdempotent ==
    [][\A t \in Thresholds :
          filter_freq(t) =>
              /\ \A i \in 1..Len(data) :
                    LET idx == SortedSeq({k \in 1..NCols(data[i]) :
                                   Count255(data[i], k) * t[2] >= t[1] * NRows(data[i])})
                    IN /\ data'[i] = SelectCols(data[i], idx)
                       /\ Len(positions'[i]) = Len(idx)
                       /\ \A j \in 1..Len(idx) :
                              /\ idx[j] <= Len(positions[i])
                              /\ positions'[i][j] = positions[i][idx[j]]
                       /\ dimensions'[2][i] = Len(idx)
              /\ LET again == FilterLoop([data |-> data', positions |-> positions',
                                          cols |-> dimensions'[2], ret |-> "0"],
                                         1, t[1], t[2], dtype')
                 IN /\ again.data = data'
                    /\ again.positions = positions'
                    /\ again.cols = dimensions'[2]]_vars

DifferentShapes(d) == \E i, j \in 1..Len(d) : Shape(d[i]) # Shape(d[j])

\* C10: sort with an ordering that is none of the four, and convert on a
\* collection whose samples do not all have one shape, return 1 and leave
\* matrices, positions, metadata, targets, classes and dimensions as they
\* were.
C10_ErrorsLeaveUnchanged ==
    [][(\/ op'[1] = "sort" /\ op'[2] \notin Orderings
        \/ op' = <<"convert">> /\ DifferentShapes(data))
       => /\ ret' = "1"
          /\ UNCHANGED <<data, positions, description, targets, classes,
                         dimensions>>]_vars

\* C10 happens: convert has returned 1 on samples of different shapes
C10_Witness ==
    /\ op = <<"convert">> /\ ret = "1"
    /\ DifferentShapes(data)

\* the lines of file_content that are the separator, the first ones only
\* when max_nrepl is a number
SeparatorLines(file_content, max_nrepl) ==
    LET all == {i \in 1..Len(file_content) : file_content[i] = <<"/", "/">>}
    IN IF max_nrepl = << >> THEN all
       ELSE {i \in all : Cardinality({x \in all : x < i}) < max_nrepl[1]}

\* the place in the collection of the run of file f whose separator is line p
SampleOf(folder, max_nrepl, f, p) ==
    SumSeq([g \in 1..(f - 1) |->
               Cardinality(SeparatorLines(folder[g], max_nrepl))])
        + Cardinality({x \in SeparatorLines(folder[f], max_nrepl) : x <= p})

\* C11: read_simulations produces, for each file, one sample per line equal
\* to '//' (the first max_nrepl of them when max_nrepl is given), each with
\* its metadata record and its positions; the matrix of a sample has
\* nr_samples rows and segsites columns, and its cell (j, k) is 0 when
\* character k of haplotype line j is '0' and 255 for any other character.
C11_ReadOneSamplePerSeparator ==
    op[1] = "read_simulations" =>
        LET folder == op[2]
            nr_samples == op[3]
            max_nrepl == op[4]
        IN /\ Len(data) = SumSeq([f \in 1..Len(folder) |->
                              Cardinality(SeparatorLines(folder[f], max_nrepl))])
           /\ Len(positions) = Len(data)
           /\ Len(description) = Len(data)
           /\ \A f \in 1..Len(folder) :
                \A p \in SeparatorLines(folder[f], max_nrepl) :
                    LET i == SampleOf(folder, max_nrepl, f, p)
                        segsites == Number(folder[f][p + 1][2])
                    IN /\ description[i] = Number(folder[f][1][2])
                       /\ positions[i] = [k \in 1..segsites |->
                                             Number(folder[f][p + 2][k + 1])]
                       /\ Len(data[i]) = nr_samples
                       /\ \A j \in 1..nr_samples :
                            /\ Len(data[i][j]) = segsites
                            /\ \A k \in 1..segsites :
                                 data[i][j][k] =
                                     IF folder[f][p + 2 + j][k] = "0"
                                     THEN 0 ELSE 255

\* C11 happens: of a file of two runs the first alone was read (max_nrepl is
\* 1), and a character that is neither '0' nor '1' became a cell of 255
C11_Witness ==
    /\ op[1] = "read_simulations" /\ ret = "0"
    /\ op[4] = <<1>>
    /\ Len(op[2]) = 1
    /\ Cardinality(SeparatorLines(op[2][1], << >>)) = 2
    /\ Len(data) = 1
    /\ \E j \in 1..NRows(data[1]), k \in 1..NCols(data[1]) :
           op[2][1][5 + j][k] = "2" /\ data[1][j][k] = 255

\* C12: in every state a constructed collection reaches, the dimension
\* record holds one (row count, column count) pair per sample of the
\* collection, its length is the length of the collection, and pair i is
\* the shape of matrix i.
C12_DimensionsMatchShapes ==
    /\ Len(dimensions[1]) = Len(data)
    /\ Len(dimensions[2]) = Len(data)
    /\ \A i \in 1..Len(data) :
           <<dimensions[1][i], dimensions[2][i]>> = Shape(data[i])

====
